---- MODULE Spec2Model ----
(***************************************************************************)
(* LR table construction (BuildTable / LRTable.Insert / ActionTable and    *)
(* GotoTable Register and Copy) and the scoped symbol table of             *)
(* parser/table.go.                                                        *)
(*                                                                         *)
(* Go maps are reference values: a table is modelled as an outer map from  *)
(* state index to a row pointer plus a heap of rows, so that maps.Clone    *)
(* (which copies only the outer map) shares rows as it does in Go.         *)
(***************************************************************************)
EXTENDS Integers, Sequences, FiniteSets, TLC

VARIABLES
    States,         \* p.States: the automaton handed to BuildTable
    ActionTable,    \* p.Table.ActionTable: state index -> row pointer
    actionRows,     \* heap of the inner maps  map[Terminal]Action
    GotoTable,      \* p.Table.GotoTable: state index -> row pointer
    gotoRows,       \* heap of the inner maps  map[Symbol]int
    pc,             \* position of BuildTable / Insert
    err,            \* the local `err` of LRTable.Insert
    registerErrs,   \* every non-nil error a Register call returned so far
    callerErrs,     \* what BuildTable hands back to its caller
    actionCopy,     \* result of ActionTable.Copy() (outer map), or NoCopy
    gotoCopy,       \* result of GotoTable.Copy() (outer map), or NoCopy
    calls,          \* the Register/Copy calls made directly on the tables
    LegacyScopes,   \* st.LegacyScopes: pointers to every scope created, in order
    scopes,         \* heap of Scope objects; a *Scope is an index into it, nil is 0
    CurrentScope,   \* st.CurrentScope
    addrCounter,    \* st.addrCounter
    constantAddr,   \* st.constantAddr
    itemHeap,       \* heap of the caller's SymbolTableItem objects; a pointer is an index
    symRet,         \* what the last symbol table call returned
    symLog          \* the successful Register calls and the TempAddr calls, in order

tableVars == <<States, ActionTable, actionRows, GotoTable, gotoRows, pc, err,
               registerErrs, callerErrs, actionCopy, gotoCopy, calls>>

symVars == <<LegacyScopes, scopes, CurrentScope,
             addrCounter, constantAddr, itemHeap, symRet, symLog>>

vars == <<tableVars, symVars>>

---------------------------------------------------------------------------
(* Bounds *)

NumStates == 2
MaxItems == 3
MaxCalls == 3
MaxScopes == 3
MaxSymItems == 2
MaxAllocScopes == 1
MaxAllocs == 3
MaxReuseScopes == 2
MaxReuseItems == 2
MaxReuseLog == 3
MaxStackCalls == 5

---------------------------------------------------------------------------
(* NewSymbolTable *)

nil == 0

initialAddr == 268435456

initialConstantAddr == 536870912

NoRet == [op |-> "", variable |-> "", size |-> 0, item |-> nil,
          findInCurrentScope |-> FALSE, addr |-> 0, err |-> "nil"]

\* The two hook fields are not state: an absent hook and one that returns nil leave
\* the same table, so each call of EnterScope / ExitScope draws what its hook does.
NewSymbolTable ==
    /\ LegacyScopes = <<>>
    /\ scopes = <<>>
    /\ CurrentScope = nil
    /\ addrCounter = initialAddr
    /\ constantAddr = initialConstantAddr
    /\ itemHeap = <<>>
    /\ symRet = NoRet
    /\ symLog = <<>>

---------------------------------------------------------------------------
(* Action types and grammar symbols *)

SHIFT == "shift"
REDUCE == "reduce"
ACCEPT == "accept"

TERMINATE == "$"
EPSILON == "eps"

Terminals == {"a", TERMINATE}
NonTerminals == {"S'", "S"}

IsEpsilon(symbol) == symbol = EPSILON

IsNonTerminal(symbol) == symbol \in NonTerminals

\* S' -> S ; S -> a S ; S -> eps
Productions ==
    << [Head |-> "S'", Body |-> <<"S">>],
       [Head |-> "S", Body |-> <<"a", "S">>],
       [Head |-> "S", Body |-> <<EPSILON>>] >>

AugmentedProduction == Productions[1]

Equals(p, q) == p.Head = q.Head /\ p.Body = q.Body

GetIndex(production) ==
    (CHOOSE i \in 1..Len(Productions) : Equals(Productions[i], production)) - 1

NoErr == [kind |-> "nil"]

Action(type, number) == [Type |-> type, Number |-> number]

EmptyMap == [x \in {} |-> x]

---------------------------------------------------------------------------
(* ActionTable.Register and GotoTable.Register.  `tab` is the outer map,   *)
(* `rows` the heap of inner maps; the result carries both and the error.   *)

\* a Register that stores every action and reports nothing
ActionRegisterOverwrite(tab, rows, stateIndex, action, terminal) ==
    LET fresh == stateIndex \notin DOMAIN tab
        rows1 == IF fresh THEN Append(rows, EmptyMap) ELSE rows
        tab1 == IF fresh THEN (stateIndex :> Len(rows1)) @@ tab ELSE tab
        ptr == tab1[stateIndex]
    IN  [tab |-> tab1,
         rows |-> [rows1 EXCEPT ![ptr] = (terminal :> action) @@ rows1[ptr]],
         err |-> NoErr]

\* a Register that keeps whatever the slot holds and reports every second action
ActionRegisterKeepFirst(tab, rows, stateIndex, action, terminal) ==
    LET fresh == stateIndex \notin DOMAIN tab
        rows1 == IF fresh THEN Append(rows, EmptyMap) ELSE rows
        tab1 == IF fresh THEN (stateIndex :> Len(rows1)) @@ tab ELSE tab
        ptr == tab1[stateIndex]
        row == rows1[ptr]
    IN  IF terminal \in DOMAIN row
        THEN [tab |-> tab1, rows |-> rows1,
              err |-> [kind |-> "conflict", state |-> stateIndex, terminal |-> terminal,
                       first |-> row[terminal].Type, firstNumber |-> row[terminal].Number,
                       second |-> action.Type, secondNumber |-> action.Number]]
        ELSE [tab |-> tab1,
              rows |-> [rows1 EXCEPT ![ptr] = (terminal :> action) @@ row],
              err |-> NoErr]

ActionRegister(tab, rows, stateIndex, action, terminal) ==
    LET fresh == stateIndex \notin DOMAIN tab
        rows1 == IF fresh THEN Append(rows, EmptyMap) ELSE rows
        tab1 == IF fresh THEN (stateIndex :> Len(rows1)) @@ tab ELSE tab
        ptr == tab1[stateIndex]
        row == rows1[ptr]
    IN  IF terminal \in DOMAIN row /\ row[terminal].Type = SHIFT /\ action.Type = REDUCE
        THEN [tab |-> tab1, rows |-> rows1,
              err |-> [kind |-> "conflict", state |-> stateIndex, terminal |-> terminal,
                       first |-> SHIFT, firstNumber |-> row[terminal].Number,
                       second |-> REDUCE, secondNumber |-> action.Number]]
        ELSE IF terminal \in DOMAIN row /\ row[terminal].Type = REDUCE /\ action.Type = REDUCE
        THEN [tab |-> tab1, rows |-> rows1,
              err |-> [kind |-> "conflict", state |-> stateIndex, terminal |-> terminal,
                       first |-> REDUCE, firstNumber |-> row[terminal].Number,
                       second |-> REDUCE, secondNumber |-> action.Number]]
        ELSE [tab |-> tab1,
              rows |-> [rows1 EXCEPT ![ptr] = (terminal :> action) @@ row],
              err |-> NoErr]

GotoRegister(tab, rows, stateIndex, nextStateIndex, symbol) ==
    LET fresh == stateIndex \notin DOMAIN tab
        rows1 == IF fresh THEN Append(rows, EmptyMap) ELSE rows
        tab1 == IF fresh THEN (stateIndex :> Len(rows1)) @@ tab ELSE tab
        ptr == tab1[stateIndex]
    IN  [tab |-> tab1,
         rows |-> [rows1 EXCEPT ![ptr] = (symbol :> nextStateIndex) @@ rows1[ptr]],
         err |-> NoErr]

\* maps.Clone: a new outer map with the same keys and the same row pointers
TableCopy(tab) == [k \in DOMAIN tab |-> tab[k]]

---------------------------------------------------------------------------
(* LRTable.Insert: the body of its loop for one item.  `t` is the table     *)
(* pair with its heaps and the current value of the local err.             *)

WithAction(t, r) ==
    [t EXCEPT !.ActionTable = r.tab, !.actionRows = r.rows, !.err = r.err,
              !.registerErrs = IF r.err.kind = "nil" THEN @ ELSE Append(@, r.err)]

WithGoto(t, r) ==
    [t EXCEPT !.GotoTable = r.tab, !.gotoRows = r.rows, !.err = r.err,
              !.registerErrs = IF r.err.kind = "nil" THEN @ ELSE Append(@, r.err)]

\* InsertItem without the test for the augmented production
InsertItemNoAccept(t, state, item) ==
    LET body == item.Production.Body
        completed == IF item.Dot = Len(body) THEN TRUE ELSE IsEpsilon(body[item.Dot + 1])
    IN  IF completed
        THEN WithAction(t, ActionRegister(t.ActionTable, t.actionRows, state.Index,
                                          Action(REDUCE, GetIndex(item.Production)),
                                          item.Lookahead))
        ELSE LET symbol == body[item.Dot + 1]
             IN  IF IsNonTerminal(symbol)
                 THEN WithGoto(t, GotoRegister(t.GotoTable, t.gotoRows, state.Index,
                                               state.Transitions[symbol].Index, symbol))
                 ELSE WithAction(t, ActionRegister(t.ActionTable, t.actionRows, state.Index,
                                    Action(SHIFT, state.Transitions[symbol].Index),
                                    symbol))

\* InsertItem that shifts to the state itself instead of its successor
InsertItemShiftSelf(t, state, item) ==
    LET body == item.Production.Body
        completed == IF item.Dot = Len(body) THEN TRUE ELSE IsEpsilon(body[item.Dot + 1])
    IN  IF completed
        THEN IF item.Lookahead = TERMINATE /\ Equals(item.Production, AugmentedProduction)
             THEN WithAction(t, ActionRegister(t.ActionTable, t.actionRows, state.Index,
                                               Action(ACCEPT, 0), TERMINATE))
             ELSE WithAction(t, ActionRegister(t.ActionTable, t.actionRows, state.Index,
                                               Action(REDUCE, GetIndex(item.Production)),
                                               item.Lookahead))
        ELSE LET symbol == body[item.Dot + 1]
             IN  IF IsNonTerminal(symbol)
                 THEN WithGoto(t, GotoRegister(t.GotoTable, t.gotoRows, state.Index,
                                               state.Transitions[symbol].Index, symbol))
                 ELSE WithAction(t, ActionRegister(t.ActionTable, t.actionRows, state.Index,
                                    Action(SHIFT, state.Index), symbol))

\* InsertItem that tests for epsilon only after the dot-at-end test, and skips the item
InsertItemSkipEpsilon(t, state, item) ==
    LET body == item.Production.Body
    IN  IF item.Dot = Len(body)
        THEN IF item.Lookahead = TERMINATE /\ Equals(item.Production, AugmentedProduction)
             THEN WithAction(t, ActionRegister(t.ActionTable, t.actionRows, state.Index,
                                               Action(ACCEPT, 0), TERMINATE))
             ELSE WithAction(t, ActionRegister(t.ActionTable, t.actionRows, state.Index,
                                               Action(REDUCE, GetIndex(item.Production)),
                                               item.Lookahead))
        ELSE LET symbol == body[item.Dot + 1]
             IN  IF IsEpsilon(symbol)
                 THEN t
                 ELSE IF IsNonTerminal(symbol)
                 THEN WithGoto(t, GotoRegister(t.GotoTable, t.gotoRows, state.Index,
                                               state.Transitions[symbol].Index, symbol))
                 ELSE WithAction(t, ActionRegister(t.ActionTable, t.actionRows, state.Index,
                                    Action(SHIFT, state.Transitions[symbol].Index),
                                    symbol))

InsertItem(t, state, item) ==
    LET body == item.Production.Body
        completed == IF item.Dot = Len(body) THEN TRUE ELSE IsEpsilon(body[item.Dot + 1])
    IN  IF completed
        THEN IF item.Lookahead = TERMINATE /\ Equals(item.Production, AugmentedProduction)
             THEN WithAction(t, ActionRegister(t.ActionTable, t.actionRows, state.Index,
                                               Action(ACCEPT, 0), TERMINATE))
             ELSE WithAction(t, ActionRegister(t.ActionTable, t.actionRows, state.Index,
                                               Action(REDUCE, GetIndex(item.Production)),
                                               item.Lookahead))
        ELSE LET symbol == body[item.Dot + 1]
             IN  IF IsEpsilon(symbol)
                 THEN t
                 ELSE IF IsNonTerminal(symbol)
                 THEN WithGoto(t, GotoRegister(t.GotoTable, t.gotoRows, state.Index,
                                               state.Transitions[symbol].Index, symbol))
                 ELSE WithAction(t, ActionRegister(t.ActionTable, t.actionRows, state.Index,
                                    Action(SHIFT, state.Transitions[symbol].Index),
                                    symbol))

---------------------------------------------------------------------------
(* The automata BuildTable is run on: NumStates states with indices        *)
(* 0..NumStates-1, at most MaxItems items in all, every state's item list   *)
(* without repetition, and a successor state for exactly the symbols that  *)
(* stand after a dot.  A successor is recorded by its Index, the only      *)
(* field of it that Insert reads.                                          *)

Item(production, dot, lookahead) ==
    [Production |-> production, Dot |-> dot, Lookahead |-> lookahead]

ItemUniverse ==
    { Item(Productions[1], 1, TERMINATE),   \* S' -> S . , $
      Item(Productions[1], 1, "a"),         \* S' -> S . , a
      Item(Productions[3], 0, TERMINATE),   \* S -> . eps , $
      Item(Productions[3], 0, "a"),         \* S -> . eps , a
      Item(Productions[2], 0, TERMINATE),   \* S -> . a S , $
      Item(Productions[1], 0, TERMINATE) }  \* S' -> . S , $

\* the symbol after the dot of an item that Insert does not treat as completed
AfterDot(item) ==
    IF item.Dot = Len(item.Production.Body) THEN {}
    ELSE IF IsEpsilon(item.Production.Body[item.Dot + 1]) THEN {}
    ELSE {item.Production.Body[item.Dot + 1]}

EdgeSymbols(items) == UNION { AfterDot(items[i]) : i \in DOMAIN items }

\* item lists without repetition of at most n items
ItemLists(n) ==
    { s \in UNION { [1..m -> ItemUniverse] : m \in 0..n } :
        \A i, j \in DOMAIN s : i # j => s[i] # s[j] }

Successors == { [Index |-> n] : n \in 0..(NumStates - 1) }

StateChoices(index, n) ==
    UNION { { [Index |-> index, Items |-> items, Transitions |-> tr] :
                tr \in [EdgeSymbols(items) -> Successors] } :
            items \in ItemLists(n) }

RECURSIVE TotalItems(_)
TotalItems(states) ==
    IF states = <<>> THEN 0
    ELSE Len(Head(states).Items) + TotalItems(Tail(states))

---------------------------------------------------------------------------
(* Parser.BuildTable *)

InitTables ==
    /\ ActionTable = EmptyMap
    /\ actionRows = <<>>
    /\ GotoTable = EmptyMap
    /\ gotoRows = <<>>
    /\ err = NoErr
    /\ registerErrs = <<>>
    /\ callerErrs = <<>>
    /\ actionCopy = EmptyMap
    /\ gotoCopy = EmptyMap
    /\ calls = <<>>

\* States holds the states the loop of BuildTable has reached so far
Init ==
    /\ States = <<>>
    /\ pc = [phase |-> "start", k |-> 0, i |-> 0]
    /\ InitTables
    /\ NewSymbolTable

\* p.Table = &LRTable{make(ActionTable), make(GotoTable)}
BuildStart ==
    /\ pc.phase = "start"
    /\ ActionTable' = EmptyMap
    /\ actionRows' = <<>>
    /\ GotoTable' = EmptyMap
    /\ gotoRows' = <<>>
    /\ pc' = [phase |-> "states", k |-> 0, i |-> 0]
    /\ UNCHANGED <<States, err, registerErrs, callerErrs, actionCopy, gotoCopy, calls>>
    /\ UNCHANGED symVars

\* for _, state := range p.States: the next state, and the call of Insert on it,
\* which declares err anew
NextState ==
    /\ pc.phase = "states"
    /\ Len(States) < NumStates
    /\ \E state \in StateChoices(Len(States), MaxItems - TotalItems(States)) :
        /\ States' = Append(States, state)
        /\ pc' = IF state.Items = <<>>
                 THEN pc
                 ELSE [phase |-> "insert", k |-> Len(States) + 1, i |-> 1]
    /\ err' = NoErr
    /\ UNCHANGED <<ActionTable, actionRows, GotoTable, gotoRows, registerErrs,
                   callerErrs, actionCopy, gotoCopy, calls>>
    /\ UNCHANGED symVars

\* one iteration of the loop of Insert
Insert ==
    /\ pc.phase = "insert"
    /\ LET state == States[pc.k]
           t == [ActionTable |-> ActionTable, actionRows |-> actionRows,
                 GotoTable |-> GotoTable, gotoRows |-> gotoRows,
                 err |-> err, registerErrs |-> registerErrs]
           r == InsertItem(t, state, state.Items[pc.i])
       IN  /\ ActionTable' = r.ActionTable
           /\ actionRows' = r.actionRows
           /\ GotoTable' = r.GotoTable
           /\ gotoRows' = r.gotoRows
           /\ err' = r.err
           /\ registerErrs' = r.registerErrs
    /\ pc' = IF pc.i < Len(States[pc.k].Items)
             THEN [pc EXCEPT !.i = pc.i + 1]
             ELSE [phase |-> "states", k |-> 0, i |-> 0]
    /\ UNCHANGED <<States, callerErrs, actionCopy, gotoCopy, calls>>
    /\ UNCHANGED symVars

\* BuildTable has no result: nothing Insert saw reaches the caller
BuildReturn ==
    /\ pc.phase = "states"
    /\ Len(States) = NumStates
    /\ pc' = [pc EXCEPT !.phase = "done"]
    /\ callerErrs' = <<>>
    /\ UNCHANGED <<States, ActionTable, actionRows, GotoTable, gotoRows, err,
                   registerErrs, actionCopy, gotoCopy, calls>>
    /\ UNCHANGED symVars

Next == BuildStart \/ NextState \/ Insert \/ BuildReturn

Spec == Init /\ [][Next]_vars

---------------------------------------------------------------------------
(* The tables used directly: Register and Copy called on an ActionTable t  *)
(* and a GotoTable t, and Register called on the copies c.  calls records   *)
(* each call with what it returned.                                        *)

GOTO == "goto"

RegStateIndices == {0, 1}

RegActions == { Action(SHIFT, 1), Action(REDUCE, 1), Action(REDUCE, 2) }

Call(op, table, on, stateIndex, symbol, action, e) ==
    [op |-> op, table |-> table, on |-> on, stateIndex |-> stateIndex,
     symbol |-> symbol, action |-> action, err |-> e]

Copied(table) ==
    \E i \in DOMAIN calls : calls[i].op = "Copy" /\ calls[i].table = table

InitReg ==
    /\ States = <<>>
    /\ pc = [phase |-> "api", k |-> 0, i |-> 0]
    /\ InitTables
    /\ NewSymbolTable

\* t.Register(stateIndex, action, terminal) on the ActionTable t
ActionRegisterOnTable ==
    /\ Len(calls) < MaxCalls
    /\ \E stateIndex \in RegStateIndices, action \in RegActions, terminal \in Terminals :
        LET r == ActionRegister(ActionTable, actionRows, stateIndex, action, terminal)
        IN  /\ ActionTable' = r.tab
            /\ actionRows' = r.rows
            /\ calls' = Append(calls, Call("Register", "action", "t", stateIndex,
                                           terminal, action, r.err))
    /\ UNCHANGED <<States, GotoTable, gotoRows, pc, err, registerErrs, callerErrs,
                   actionCopy, gotoCopy>>
    /\ UNCHANGED symVars

\* c := t.Copy() on the ActionTable t
ActionCopy ==
    /\ Len(calls) < MaxCalls
    /\ ~Copied("action")
    /\ actionCopy' = TableCopy(ActionTable)
    /\ calls' = Append(calls, Call("Copy", "action", "t", 0, "", Action("", 0), NoErr))
    /\ UNCHANGED <<States, ActionTable, actionRows, GotoTable, gotoRows, pc, err,
                   registerErrs, callerErrs, gotoCopy>>
    /\ UNCHANGED symVars

\* c.Register(stateIndex, action, terminal) on the copy c
ActionRegisterOnCopy ==
    /\ Len(calls) < MaxCalls
    /\ Copied("action")
    /\ \E stateIndex \in RegStateIndices, action \in RegActions, terminal \in Terminals :
        LET r == ActionRegister(actionCopy, actionRows, stateIndex, action, terminal)
        IN  /\ actionCopy' = r.tab
            /\ actionRows' = r.rows
            /\ calls' = Append(calls, Call("Register", "action", "c", stateIndex,
                                           terminal, action, r.err))
    /\ UNCHANGED <<States, ActionTable, GotoTable, gotoRows, pc, err, registerErrs,
                   callerErrs, gotoCopy>>
    /\ UNCHANGED symVars

\* t.Register(stateIndex, nextStateIndex, symbol) on the GotoTable t
GotoRegisterOnTable ==
    /\ Len(calls) < MaxCalls
    /\ \E stateIndex \in RegStateIndices, nextStateIndex \in RegStateIndices :
        LET r == GotoRegister(GotoTable, gotoRows, stateIndex, nextStateIndex, "S")
        IN  /\ GotoTable' = r.tab
            /\ gotoRows' = r.rows
            /\ calls' = Append(calls, Call("Register", "goto", "t", stateIndex, "S",
                                           Action(GOTO, nextStateIndex), r.err))
    /\ UNCHANGED <<States, ActionTable, actionRows, pc, err, registerErrs, callerErrs,
                   actionCopy, gotoCopy>>
    /\ UNCHANGED symVars

\* c := t.Copy() on the GotoTable t
GotoCopy ==
    /\ Len(calls) < MaxCalls
    /\ ~Copied("goto")
    /\ gotoCopy' = TableCopy(GotoTable)
    /\ calls' = Append(calls, Call("Copy", "goto", "t", 0, "", Action("", 0), NoErr))
    /\ UNCHANGED <<States, ActionTable, actionRows, GotoTable, gotoRows, pc, err,
                   registerErrs, callerErrs, actionCopy>>
    /\ UNCHANGED symVars

\* c.Register(stateIndex, nextStateIndex, symbol) on the copy c
GotoRegisterOnCopy ==
    /\ Len(calls) < MaxCalls
    /\ Copied("goto")
    /\ \E stateIndex \in RegStateIndices, nextStateIndex \in RegStateIndices :
        LET r == GotoRegister(gotoCopy, gotoRows, stateIndex, nextStateIndex, "S")
        IN  /\ gotoCopy' = r.tab
            /\ gotoRows' = r.rows
            /\ calls' = Append(calls, Call("Register", "goto", "c", stateIndex, "S",
                                           Action(GOTO, nextStateIndex), r.err))
    /\ UNCHANGED <<States, ActionTable, actionRows, GotoTable, pc, err, registerErrs,
                   callerErrs, actionCopy>>
    /\ UNCHANGED symVars

NextReg ==
    \/ ActionRegisterOnTable
    \/ ActionCopy
    \/ ActionRegisterOnCopy
    \/ GotoRegisterOnTable
    \/ GotoCopy
    \/ GotoRegisterOnCopy

SpecReg == InitReg /\ [][NextReg]_vars

---------------------------------------------------------------------------
(* SymbolTable.  The operators below work on the record                    *)
(*   [LegacyScopes, scopes, CurrentScope, addrCounter, itemHeap]            *)
(* and return the record after the call together with the results.        *)

SymbolTableItemTypeVariable == "variable"
SymbolTableItemTypeArray == "array"
SymbolTableItemTypeConstant == "constant"

SymbolTable ==
    [LegacyScopes |-> LegacyScopes, scopes |-> scopes, CurrentScope |-> CurrentScope,
     addrCounter |-> addrCounter, itemHeap |-> itemHeap]

\* Go's integer division, which truncates toward zero (b > 0)
GoDiv(a, b) == IF a >= 0 THEN a \div b ELSE -((-a) \div b)

\* the advance without the extra word for a remainder
AdvancedNoRoundUp(counter, n) == counter + GoDiv(n, 4)

\* counter += n / 4; if n/4*4 != n { counter++ }
Advanced(counter, n) ==
    IF GoDiv(n, 4) * 4 # n THEN counter + GoDiv(n, 4) + 1 ELSE counter + GoDiv(n, 4)

\* an EnterScope that numbers a scope by its depth
EnterScopeOpIdByDepth(st, hook) ==
    LET depth == IF st.CurrentScope = nil THEN 0
                 ELSE st.scopes[st.CurrentScope].Level + 1
        ptr == Len(st.scopes) + 1
    IN  [st |-> [st EXCEPT !.scopes = Append(@, [ID |-> depth, Level |-> depth,
                                                 Items |-> EmptyMap,
                                                 Parent |-> st.CurrentScope]),
                           !.CurrentScope = ptr,
                           !.LegacyScopes = Append(@, ptr)],
         err |-> IF hook = "fail" THEN "hook" ELSE "nil"]

\* an EnterScope that asks the hook before it creates the scope
EnterScopeOpHookFirst(st, hook) ==
    IF hook = "fail" THEN [st |-> st, err |-> "hook"]
    ELSE LET ptr == Len(st.scopes) + 1
             scope == [ID |-> Len(st.LegacyScopes),
                       Level |-> IF st.CurrentScope = nil THEN 0
                                 ELSE st.scopes[st.CurrentScope].Level + 1,
                       Items |-> EmptyMap, Parent |-> st.CurrentScope]
         IN  [st |-> [st EXCEPT !.scopes = Append(@, scope),
                                !.CurrentScope = ptr,
                                !.LegacyScopes = Append(@, ptr)],
              err |-> "nil"]

\* hook is "nil" (no function), "ok" or "fail" (what the function returns)
EnterScopeOp(st, hook) ==
    LET scope == IF st.CurrentScope = nil
                 THEN [ID |-> Len(st.LegacyScopes), Level |-> 0,
                       Items |-> EmptyMap, Parent |-> nil]
                 ELSE [ID |-> Len(st.LegacyScopes),
                       Level |-> st.scopes[st.CurrentScope].Level + 1,
                       Items |-> EmptyMap, Parent |-> st.CurrentScope]
        ptr == Len(st.scopes) + 1
    IN  [st |-> [st EXCEPT !.scopes = Append(@, scope),
                           !.CurrentScope = ptr,
                           !.LegacyScopes = Append(@, ptr)],
         err |-> IF hook = "fail" THEN "hook" ELSE "nil"]

\* an ExitScope that leaves every open scope at once
ExitScopeOpToRoot(st, hook) ==
    IF st.CurrentScope = nil THEN [st |-> st, err |-> "no scope to exit"]
    ELSE IF hook = "fail" THEN [st |-> st, err |-> "hook"]
    ELSE [st |-> [st EXCEPT !.CurrentScope = nil], err |-> "nil"]

\* an ExitScope that moves to the parent before it asks the hook
ExitScopeOpMoveFirst(st, hook) ==
    IF st.CurrentScope = nil THEN [st |-> st, err |-> "no scope to exit"]
    ELSE [st |-> [st EXCEPT !.CurrentScope = st.scopes[st.CurrentScope].Parent],
          err |-> IF hook = "fail" THEN "hook" ELSE "nil"]

ExitScopeOp(st, hook) ==
    IF st.CurrentScope = nil THEN [st |-> st, err |-> "no scope to exit"]
    ELSE IF hook = "fail" THEN [st |-> st, err |-> "hook"]
    ELSE [st |-> [st EXCEPT !.CurrentScope = st.scopes[st.CurrentScope].Parent],
          err |-> "nil"]

\* a Register that stores the item before it validates the size
RegisterOpStoreFirst(st, p) ==
    LET item == st.itemHeap[p]
        cur == st.CurrentScope
    IN  IF cur = nil THEN [st |-> st, err |-> "no scope to register item"]
        ELSE IF item.Variable \in DOMAIN st.scopes[cur].Items
        THEN [st |-> st, err |-> "already exists in scope"]
        ELSE LET st1 == [st EXCEPT !.scopes[cur].Items = (item.Variable :> p) @@ @]
             IN  IF item.VariableSize <= 0
                 THEN [st |-> st1, err |-> "invalid variable size"]
                 ELSE [st |-> [st1 EXCEPT !.itemHeap[p].Address = st.addrCounter,
                                          !.addrCounter = st.addrCounter + 1],
                       err |-> "nil"]

\* Register(item) for the item object at pointer p
RegisterOp(st, p) ==
    LET item == st.itemHeap[p]
        cur == st.CurrentScope
    IN  IF cur = nil THEN [st |-> st, err |-> "no scope to register item"]
        ELSE IF item.Variable \in DOMAIN st.scopes[cur].Items
        THEN [st |-> st, err |-> "already exists in scope"]
        ELSE IF item.VariableSize <= 0
        THEN [st |-> st, err |-> "invalid variable size"]
        ELSE LET st1 == [st EXCEPT !.scopes[cur].Items = (item.Variable :> p) @@ @]
             IN  IF item.Type = SymbolTableItemTypeVariable
                 THEN [st |-> [st1 EXCEPT !.itemHeap[p].Address = st.addrCounter,
                                          !.addrCounter = Advanced(@, item.VariableSize)],
                       err |-> "nil"]
                 ELSE IF item.Type = SymbolTableItemTypeArray
                 THEN [st |-> [st1 EXCEPT !.itemHeap[p].Address = st.addrCounter,
                                          !.addrCounter =
                                              Advanced(@, item.VariableSize * item.ArraySize)],
                       err |-> "nil"]
                 ELSE [st |-> st1, err |-> "nil"]

RECURSIVE LookupFromFlagTrue(_, _, _)
\* a walk that reports every match as found in the current scope
LookupFromFlagTrue(st, ptr, variable) ==
    IF ptr = nil
    THEN [item |-> nil, findInCurrentScope |-> FALSE, err |-> "not found in any scope"]
    ELSE IF variable \in DOMAIN st.scopes[ptr].Items
    THEN [item |-> st.scopes[ptr].Items[variable], findInCurrentScope |-> TRUE,
          err |-> "nil"]
    ELSE LookupFromFlagTrue(st, st.scopes[ptr].Parent, variable)

\* the walk of Lookup from scope pointer ptr outward
RECURSIVE LookupFrom(_, _, _)
LookupFrom(st, ptr, variable) ==
    IF ptr = nil
    THEN [item |-> nil, findInCurrentScope |-> FALSE, err |-> "not found in any scope"]
    ELSE IF variable \in DOMAIN st.scopes[ptr].Items
    THEN [item |-> st.scopes[ptr].Items[variable],
          findInCurrentScope |-> (ptr = st.CurrentScope), err |-> "nil"]
    ELSE LookupFrom(st, st.scopes[ptr].Parent, variable)

\* a lookup that searches every scope ever entered
LookupAnyScope(st, variable) ==
    IF st.CurrentScope = nil
    THEN [item |-> nil, findInCurrentScope |-> FALSE, err |-> "no scope to lookup item"]
    ELSE IF \E s \in DOMAIN st.scopes : variable \in DOMAIN st.scopes[s].Items
    THEN LET s == CHOOSE s \in DOMAIN st.scopes : variable \in DOMAIN st.scopes[s].Items
         IN  [item |-> st.scopes[s].Items[variable],
              findInCurrentScope |-> (s = st.CurrentScope), err |-> "nil"]
    ELSE [item |-> nil, findInCurrentScope |-> FALSE, err |-> "not found in any scope"]

LookupOp(st, variable) ==
    IF st.CurrentScope = nil
    THEN [item |-> nil, findInCurrentScope |-> FALSE, err |-> "no scope to lookup item"]
    ELSE LookupFrom(st, st.CurrentScope, variable)

TempAddrOp(st, size) ==
    [st |-> [st EXCEPT !.addrCounter = Advanced(@, size)], addr |-> st.addrCounter]

---------------------------------------------------------------------------
(* The calls on a SymbolTable as actions *)

\* no hook function, a hook that returns nil, a hook that returns an error
HookResults == {"nil", "ok", "fail"}

SetSymbolTable(st) ==
    /\ LegacyScopes' = st.LegacyScopes
    /\ scopes' = st.scopes
    /\ CurrentScope' = st.CurrentScope
    /\ addrCounter' = st.addrCounter
    /\ itemHeap' = st.itemHeap

Ret(op, variable, size, item, findInCurrentScope, addr, e) ==
    [op |-> op, variable |-> variable, size |-> size, item |-> item,
     findInCurrentScope |-> findInCurrentScope, addr |-> addr, err |-> e]

\* the bytes a logged call asked for
LogEntry(op, scope, item, type, bytes, addr) ==
    [op |-> op, scope |-> scope, item |-> item, type |-> type, bytes |-> bytes,
     addr |-> addr]

\* EnterScope() with a hook that behaves as `hook` says
EnterScopeStep(hook) ==
    LET r == EnterScopeOp(SymbolTable, hook)
    IN  /\ SetSymbolTable(r.st)
        /\ symRet' = Ret("EnterScope", "", 0, nil, FALSE, 0, r.err)
        /\ UNCHANGED <<constantAddr, symLog>>

EnterScope ==
    /\ \E hook \in HookResults : EnterScopeStep(hook)
    /\ UNCHANGED tableVars

\* ExitScope() with a hook that behaves as `hook` says
ExitScopeStep(hook) ==
    LET r == ExitScopeOp(SymbolTable, hook)
    IN  /\ SetSymbolTable(r.st)
        /\ symRet' = Ret("ExitScope", "", 0, nil, FALSE, 0, r.err)
        /\ UNCHANGED <<constantAddr, symLog>>

ExitScope ==
    /\ \E hook \in HookResults : ExitScopeStep(hook)
    /\ UNCHANGED tableVars

\* Register(p) for an item object the caller holds at pointer p of heap; the result
\* keeps the Address the object had when it was passed in
RegisterStep(heap, p) ==
    LET r == RegisterOp([SymbolTable EXCEPT !.itemHeap = heap], p)
        item == heap[p]
    IN  /\ SetSymbolTable(r.st)
        /\ symRet' = Ret("Register", "", 0, p, FALSE, item.Address, r.err)
        /\ symLog' = IF r.err = "nil"
                     THEN Append(symLog,
                                 LogEntry("Register", CurrentScope, p, item.Type,
                                          IF item.Type = SymbolTableItemTypeArray
                                          THEN item.VariableSize * item.ArraySize
                                          ELSE item.VariableSize,
                                          r.st.itemHeap[p].Address))
                     ELSE symLog
        /\ UNCHANGED constantAddr

\* the caller's new item object, appended to the heap
WithNewItem(variable, proto) ==
    Append(itemHeap,
           [Variable |-> variable, Type |-> proto.Type, Address |-> proto.Address,
            VariableSize |-> proto.VariableSize, ArraySize |-> proto.ArraySize])

RegisterCall(heap, p) ==
    /\ RegisterStep(heap, p)
    /\ UNCHANGED tableVars

\* the caller makes a new item object and registers it
RegisterNew(names, protos) ==
    \E variable \in names, proto \in protos :
        RegisterCall(WithNewItem(variable, proto), Len(itemHeap) + 1)

\* the caller registers an item object it has passed to Register before
RegisterSame == \E p \in DOMAIN itemHeap : RegisterCall(itemHeap, p)

LookupStep(variable) ==
    LET r == LookupOp(SymbolTable, variable)
    IN  /\ symRet' = Ret("Lookup", variable, 0, r.item, r.findInCurrentScope, 0, r.err)
        /\ UNCHANGED <<LegacyScopes, scopes, CurrentScope, addrCounter, constantAddr,
                       itemHeap, symLog>>

Lookup(names) ==
    /\ \E variable \in names : LookupStep(variable)
    /\ UNCHANGED tableVars

TempAddrStep(size) ==
    LET r == TempAddrOp(SymbolTable, size)
    IN  /\ SetSymbolTable(r.st)
        /\ symRet' = Ret("TempAddr", "", 0, nil, FALSE, r.addr, "nil")
        /\ symLog' = Append(symLog, LogEntry("TempAddr", CurrentScope, nil, "temp",
                                             size, r.addr))
        /\ UNCHANGED constantAddr

TempAddr(sizes) ==
    /\ \E size \in sizes : TempAddrStep(size)
    /\ UNCHANGED tableVars

InitNoTables ==
    /\ States = <<>>
    /\ pc = [phase |-> "symbols", k |-> 0, i |-> 0]
    /\ InitTables

Temps == SelectSeq(symLog, LAMBDA e : e.op = "TempAddr")

Proto(type, size, arraySize, address) ==
    [Type |-> type, VariableSize |-> size, ArraySize |-> arraySize, Address |-> address]

---------------------------------------------------------------------------
(* Scopes: hooks that are absent, succeed or fail, two names, a valid and  *)
(* an invalid size.                                                        *)

SymNames == {"x", "y"}

SymProtos ==
    { Proto(SymbolTableItemTypeVariable, 4, 1, 0),
      Proto(SymbolTableItemTypeVariable, 0, 1, 0) }

InitSym ==
    /\ InitNoTables
    /\ NewSymbolTable

NextSym ==
    \/ (Len(LegacyScopes) < MaxScopes /\ EnterScope)
    \/ ExitScope
    \/ (Len(itemHeap) < MaxSymItems /\ RegisterNew(SymNames, SymProtos))
    \/ Lookup(SymNames)

SpecSym == InitSym /\ [][NextSym]_vars

---------------------------------------------------------------------------
(* Allocation: a table without hooks, many sizes.                          *)

\* the caller gives every item object a name of its own
AllocNames == {"v" \o ToString(Len(itemHeap) + 1)}

AllocProtos ==
    { Proto(SymbolTableItemTypeVariable, n, 1, 0) : n \in {1, 3, 4, 5, 6, 8} }
    \cup { Proto(SymbolTableItemTypeArray, 4, 3, 0),
           Proto(SymbolTableItemTypeArray, 3, 3, 0) }

AllocTempSizes == {-4, 0, 5, 8}

InitAlloc ==
    /\ InitNoTables
    /\ NewSymbolTable

NextAlloc ==
    \/ (Len(LegacyScopes) < MaxAllocScopes /\ EnterScope)
    \/ (Len(itemHeap) + Len(Temps) < MaxAllocs /\ RegisterNew(AllocNames, AllocProtos))
    \/ (Len(itemHeap) + Len(Temps) < MaxAllocs /\ TempAddr(AllocTempSizes))

SpecAlloc == InitAlloc /\ [][NextAlloc]_vars

---------------------------------------------------------------------------
(* Item objects used again: every call of the table, and Register also on  *)
(* item objects that were passed to Register before.                       *)

ReuseNames == {"x"}

ReuseProtos ==
    { Proto(SymbolTableItemTypeVariable, 4, 1, 0),
      Proto(SymbolTableItemTypeConstant, 4, 1, 7) }

ReuseTempSizes == {4}

InitReuse ==
    /\ InitNoTables
    /\ NewSymbolTable

NextReuse ==
    \/ (Len(LegacyScopes) < MaxReuseScopes /\ EnterScope)
    \/ ExitScope
    \/ (Len(itemHeap) < MaxReuseItems /\ RegisterNew(ReuseNames, ReuseProtos))
    \/ (Len(symLog) < MaxReuseLog /\ RegisterSame)
    \/ Lookup(ReuseNames)
    \/ (Len(symLog) < MaxReuseLog /\ TempAddr(ReuseTempSizes))

SpecReuse == InitReuse /\ [][NextReuse]_vars

---------------------------------------------------------------------------
(* Nesting: the calls of a table in sequence, calls records each call with  *)
(* the scope that was current before it, the one current after it and the   *)
(* error it returned.                                                       *)

StackNames == {"x"}

StackProtos == { Proto(SymbolTableItemTypeVariable, 4, 1, 0) }

StackTempSizes == {4}

\* the record of the call made by this step
Traced ==
    /\ calls' = Append(calls, [op |-> symRet'.op, before |-> CurrentScope,
                               after |-> CurrentScope', err |-> symRet'.err])
    /\ UNCHANGED <<States, ActionTable, actionRows, GotoTable, gotoRows, pc, err,
                   registerErrs, callerErrs, actionCopy, gotoCopy>>

StackEnterScope ==
    /\ Len(calls) < MaxStackCalls
    /\ \E hook \in HookResults : EnterScopeStep(hook)
    /\ Traced

StackExitScope ==
    /\ Len(calls) < MaxStackCalls
    /\ \E hook \in HookResults : ExitScopeStep(hook)
    /\ Traced

StackRegister ==
    /\ Len(calls) < MaxStackCalls
    /\ \E variable \in StackNames, proto \in StackProtos :
          RegisterStep(WithNewItem(variable, proto), Len(itemHeap) + 1)
    /\ Traced

StackLookup ==
    /\ Len(calls) < MaxStackCalls
    /\ \E variable \in StackNames : LookupStep(variable)
    /\ Traced

StackTempAddr ==
    /\ Len(calls) < MaxStackCalls
    /\ \E size \in StackTempSizes : TempAddrStep(size)
    /\ Traced

InitStack ==
    /\ InitNoTables
    /\ NewSymbolTable

NextStack ==
    \/ StackEnterScope
    \/ StackExitScope
    \/ StackRegister
    \/ StackLookup
    \/ StackTempAddr

SpecStack == InitStack /\ [][NextStack]_vars

---------------------------------------------------------------------------
(* Reading the tables *)

\* the (state, symbol, value) associations a table holds
View(tab, rows) ==
    UNION { { <<st, x, rows[tab[st]][x]>> : x \in DOMAIN rows[tab[st]] } : st \in DOMAIN tab }

HasEntry(tab, rows, st, x) == st \in DOMAIN tab /\ x \in DOMAIN rows[tab[st]]

\* the item Insert is about to process
CurrentItem == States[pc.k].Items[pc.i]

\* the position <<k, m>> of the item processed last, while err is that of its Insert call
JustProcessed ==
    IF pc.phase = "insert"
    THEN IF pc.i > 1 THEN {<<pc.k, pc.i - 1>>} ELSE {}
    ELSE IF pc.phase \in {"states", "done"} /\ States # <<>> /\ States[Len(States)].Items # <<>>
    THEN {<<Len(States), Len(States[Len(States)].Items)>>}
    ELSE {}

\* Insert has gone through all the items of state k
Finished(k) == k <= Len(States) /\ ~(pc.phase = "insert" /\ pc.k = k)

IsCompleted(item) ==
    \/ item.Dot = Len(item.Production.Body)
    \/ item.Production.Body[item.Dot + 1] = EPSILON

IsAcceptItem(item) ==
    /\ IsCompleted(item)
    /\ item.Lookahead = TERMINATE
    /\ item.Production = AugmentedProduction

\* the terminals at which an item asks for an ACTION entry
ActionSlots(item) ==
    IF IsCompleted(item) THEN {item.Lookahead}
    ELSE {item.Production.Body[item.Dot + 1]} \cap Terminals

---------------------------------------------------------------------------
\* C2: every conflict error that ActionTable.Register returned while BuildTable
\* ran is among the errors the caller of BuildTable receives.
C2_ConflictsReachCaller ==
    pc.phase = "done" =>
        \A i \in DOMAIN registerErrs : \E j \in DOMAIN callerErrs : callerErrs[j] = registerErrs[i]

---------------------------------------------------------------------------
OnlyAcceptAtTerminate(state) ==
    \A i \in DOMAIN state.Items :
        TERMINATE \in ActionSlots(state.Items[i]) => IsAcceptItem(state.Items[i])

---------------------------------------------------------------------------
\* C4: when a state holds the completed augmented item with lookahead TERMINATE and
\* another completed item with lookahead TERMINATE, the Register call for the second
\* of the two returns a conflict error, whichever comes first.
C4_AcceptReduceConflict ==
    \A km \in JustProcessed :
        LET items == States[km[1]].Items
        IN  \A i \in 1..(km[2] - 1) :
                ( /\ IsCompleted(items[i]) /\ items[i].Lookahead = TERMINATE
                  /\ IsCompleted(items[km[2]]) /\ items[km[2]].Lookahead = TERMINATE
                  /\ IsAcceptItem(items[i]) # IsAcceptItem(items[km[2]]) )
                => err.kind = "conflict"

---------------------------------------------------------------------------
\* the ACTION entry an item asks for in its state
DemandedAction(state, item) ==
    IF IsAcceptItem(item) THEN Action(ACCEPT, 0)
    ELSE IF IsCompleted(item) THEN Action(REDUCE, GetIndex(item.Production))
    ELSE Action(SHIFT, state.Transitions[item.Production.Body[item.Dot + 1]].Index)

\* no two items of the state ask for different actions at one (state, terminal) slot
CollisionFree(state) ==
    \A i, j \in DOMAIN state.Items :
        ActionSlots(state.Items[i]) \cap ActionSlots(state.Items[j]) # {}
        => DemandedAction(state, state.Items[i]) = DemandedAction(state, state.Items[j])

\* the transition map has a successor for exactly the symbols after a dot
EdgesMatchItems(state) == DOMAIN state.Transitions = EdgeSymbols(state.Items)

\* C5: for a collision-free automaton whose transition maps hold exactly the symbols
\* after the dots, after BuildTable every edge (s, X) has GOTO[s.Index][X] = successor
\* index and no ACTION entry when X is a non-terminal, ACTION[s.Index][X] =
\* SHIFT(successor index) and no GOTO entry when X is a terminal, and no SHIFT or GOTO
\* entry exists for a (state, symbol) pair that is not an edge.
C5_EdgesPartitioned ==
    ( /\ pc.phase = "done"
      /\ \A k \in DOMAIN States : CollisionFree(States[k]) /\ EdgesMatchItems(States[k]) )
    => /\ \A k \in DOMAIN States : \A X \in DOMAIN States[k].Transitions :
            LET st == States[k].Index
                succ == States[k].Transitions[X].Index
            IN  IF X \in NonTerminals
                THEN /\ HasEntry(GotoTable, gotoRows, st, X)
                     /\ gotoRows[GotoTable[st]][X] = succ
                     /\ ~HasEntry(ActionTable, actionRows, st, X)
                ELSE /\ HasEntry(ActionTable, actionRows, st, X)
                     /\ actionRows[ActionTable[st]][X] = Action(SHIFT, succ)
                     /\ ~HasEntry(GotoTable, gotoRows, st, X)
       /\ \A e \in View(GotoTable, gotoRows) :
            \E k \in DOMAIN States : States[k].Index = e[1] /\ e[2] \in DOMAIN States[k].Transitions
       /\ \A e \in View(ActionTable, actionRows) :
            e[3].Type = SHIFT =>
            \E k \in DOMAIN States : States[k].Index = e[1] /\ e[2] \in DOMAIN States[k].Transitions

\* BuildTable is done on a collision-free automaton in which state 0 has a terminal and
\* a non-terminal edge, both to state 1, and a reduction beside them
C5_Witness ==
    /\ pc.phase = "done"
    /\ \A k \in DOMAIN States : CollisionFree(States[k]) /\ EdgesMatchItems(States[k])
    /\ Len(States[1].Items) = 3
    /\ DOMAIN States[1].Transitions = {"a", "S"}
    /\ States[1].Transitions["a"].Index = 1
    /\ States[1].Transitions["S"].Index = 1
    /\ actionRows[ActionTable[0]]["a"] = Action(SHIFT, 1)
    /\ gotoRows[GotoTable[0]]["S"] = 1

---------------------------------------------------------------------------
\* the step processes an item whose symbol after the dot is the epsilon marker
EpsilonItemStep ==
    /\ pc.phase = "insert"
    /\ CurrentItem.Dot < Len(CurrentItem.Production.Body)
    /\ CurrentItem.Production.Body[CurrentItem.Dot + 1] = EPSILON

\* C6 (as claimed): processing an item whose symbol after the dot is epsilon leaves the
\* ACTION table and the GOTO table as they were.
C6_EpsilonWritesNothing ==
    [][EpsilonItemStep =>
         /\ View(ActionTable, actionRows)' = View(ActionTable, actionRows)
         /\ View(GotoTable, gotoRows)' = View(GotoTable, gotoRows)]_vars

\* C6 (amended): an item whose symbol after the dot is epsilon is processed as a
\* completed item.  It leaves the GOTO table as it was and writes no SHIFT entry; when
\* Register reports no conflict, ACTION[state.Index][item.Lookahead] becomes the
\* REDUCE of the item's production (ACCEPT for the augmented production with lookahead
\* TERMINATE) and all other ACTION entries stay; when Register reports a conflict the
\* ACTION table stays as it was.
C6_EpsilonReduces ==
    [][EpsilonItemStep =>
         LET st == States[pc.k].Index
             la == CurrentItem.Lookahead
             want == IF la = TERMINATE /\ CurrentItem.Production = AugmentedProduction
                     THEN Action(ACCEPT, 0)
                     ELSE Action(REDUCE, GetIndex(CurrentItem.Production))
         IN  /\ View(GotoTable, gotoRows)' = View(GotoTable, gotoRows)
             /\ IF err'.kind = "nil"
                THEN View(ActionTable, actionRows)' =
                        { e \in View(ActionTable, actionRows) : <<e[1], e[2]>> # <<st, la>> }
                        \cup { <<st, la, want>> }
                ELSE View(ActionTable, actionRows)' = View(ActionTable, actionRows)]_vars

\* an epsilon item was processed last and its REDUCE stands in the ACTION table
C6_Witness ==
    \E km \in JustProcessed :
        LET item == States[km[1]].Items[km[2]]
        IN  /\ item.Dot < Len(item.Production.Body)
            /\ item.Production.Body[item.Dot + 1] = EPSILON
            /\ err.kind = "nil"
            /\ <<States[km[1]].Index, item.Lookahead, Action(REDUCE, GetIndex(item.Production))>>
                 \in View(ActionTable, actionRows)

---------------------------------------------------------------------------
\* the Register calls made on the ActionTable t for the slot (st, x), in order
SlotCalls(st, x) ==
    SelectSeq(calls, LAMBDA c : c.op = "Register" /\ c.table = "action" /\ c.on = "t"
                                /\ c.stateIndex = st /\ c.symbol = x)

\* C1: when Register is called exactly twice on a slot (s, t) of an ActionTable, once
\* with a SHIFT and once with a REDUCE, the second call returns a conflict error and
\* the slot still holds the action registered first, in both orders.
C1_ShiftReduceEitherOrder ==
    ~Copied("action") =>
    \A st \in RegStateIndices, x \in Terminals :
        LET sc == SlotCalls(st, x)
        IN  (Len(sc) = 2 /\ {sc[1].action.Type, sc[2].action.Type} = {SHIFT, REDUCE})
            => /\ sc[2].err.kind = "conflict"
               /\ actionRows[ActionTable[st]][x] = sc[1].action

---------------------------------------------------------------------------
\* the last call was a Register on `on` ("t" or "c") of the given table
LastCallOn(table, on) ==
    /\ Len(calls') = Len(calls) + 1
    /\ calls'[Len(calls')].op = "Register"
    /\ calls'[Len(calls')].table = table
    /\ calls'[Len(calls')].on = on

\* C7: after c = t.Copy(), a Register call on c leaves every association of t as it
\* was, and a Register call on t leaves every association of c as it was, for an
\* ActionTable and for a GotoTable.
C7_CopyIndependent ==
    [][ /\ (Copied("action") /\ LastCallOn("action", "c"))
            => View(ActionTable, actionRows)' = View(ActionTable, actionRows)
        /\ (Copied("action") /\ LastCallOn("action", "t"))
            => View(actionCopy, actionRows)' = View(actionCopy, actionRows)
        /\ (Copied("goto") /\ LastCallOn("goto", "c"))
            => View(GotoTable, gotoRows)' = View(GotoTable, gotoRows)
        /\ (Copied("goto") /\ LastCallOn("goto", "t"))
            => View(gotoCopy, gotoRows)' = View(gotoCopy, gotoRows) ]_vars

---------------------------------------------------------------------------
(* Addresses *)

\* the logged calls that take words from the counter
TakesWords(e) ==
    e.op = "TempAddr"
    \/ e.type \in {SymbolTableItemTypeVariable, SymbolTableItemTypeArray}

\* ceil(n / 4)
Ceil4(n) == (n + 3) \div 4

\* the words a logged call is entitled to: ceil(bytes / 4), none for a Constant
WordsOf(e) == IF TakesWords(e) THEN Ceil4(e.bytes) ELSE 0

\* the addresses of the words allocated by a logged call
WordSet(e) == IF TakesWords(e) THEN e.addr .. (e.addr + Ceil4(e.bytes) - 1) ELSE {}

RECURSIVE WordsBefore(_)
\* the sum of WordsOf over the first i - 1 logged calls
WordsBefore(i) == IF i <= 1 THEN 0 ELSE WordsBefore(i - 1) + WordsOf(symLog[i - 1])

\* C8: TempAddr never returns the Address of a Variable or Array item registered
\* before it, nor an address inside that item's words, and never an address that an
\* earlier TempAddr returned or that lies inside the words of an earlier TempAddr,
\* whatever the size arguments.
C8_TempAddrNeverAliases ==
    \A j \in DOMAIN symLog : \A i \in 1..(j - 1) :
        (symLog[j].op = "TempAddr" /\ TakesWords(symLog[i]))
            => /\ symLog[j].addr # symLog[i].addr
               /\ symLog[j].addr \notin WordSet(symLog[i])

\* C9: as long as every size asked for so far is at least 1, the i-th successful
\* Register of a Variable or Array and the i-th TempAddr get the address
\* 0x10000000 plus the sum of ceil(bytes / 4) over the earlier calls, where bytes is
\* VariableSize for a Variable, VariableSize * ArraySize for an Array and size for
\* TempAddr; the item object holds that address, and the counter stands at the sum.
C9_AddressesFollowCeil ==
    \A i \in DOMAIN symLog :
        (\A j \in 1..i : symLog[j].bytes >= 1)
            => /\ TakesWords(symLog[i]) => symLog[i].addr = initialAddr + WordsBefore(i)
               /\ (symLog[i].op = "Register" /\ TakesWords(symLog[i]))
                      => itemHeap[symLog[i].item].Address = initialAddr + WordsBefore(i)
               /\ i = Len(symLog) => addrCounter = initialAddr + WordsBefore(i + 1)

\* Variables of 4, 6 and 4 bytes registered in that order hold base, base+1, base+3
C9_Witness ==
    /\ Len(symLog) = 3
    /\ \A i \in 1..3 : symLog[i].op = "Register"
                       /\ symLog[i].type = SymbolTableItemTypeVariable
    /\ <<symLog[1].bytes, symLog[2].bytes, symLog[3].bytes>> = <<4, 6, 4>>
    /\ <<itemHeap[symLog[1].item].Address, itemHeap[symLog[2].item].Address,
          itemHeap[symLog[3].item].Address>>
           = <<initialAddr, initialAddr + 1, initialAddr + 3>>
    /\ symRet.op = "Register" /\ symRet.err = "nil"

---------------------------------------------------------------------------
(* Lookup *)

RECURSIVE ChainOf(_)
\* the scopes on the parent chain from ptr outward
ChainOf(ptr) == IF ptr = nil THEN {} ELSE {ptr} \cup ChainOf(scopes[ptr].Parent)

\* the scopes in which a Register of the name succeeded
RegisteredIn(variable) ==
    { symLog[i].scope : i \in { k \in DOMAIN symLog :
                                   /\ symLog[k].op = "Register"
                                   /\ itemHeap[symLog[k].item].Variable = variable } }

\* C10: with a scope open, Lookup(name) succeeds exactly when name was registered in
\* the current scope or in a scope on its parent chain; otherwise, also when the name
\* was registered in scopes off the chain, it reports that the name is not found.
C10_LookupFollowsChain ==
    (symRet.op = "Lookup" /\ CurrentScope # nil)
        => /\ symRet.err = "nil"
                  <=> RegisteredIn(symRet.variable) \cap ChainOf(CurrentScope) # {}
           /\ symRet.err \in {"nil", "not found in any scope"}

\* Lookup has missed a name that a sibling of the current scope (or a previous root)
\* declares
C10_Witness ==
    /\ symRet.op = "Lookup" /\ CurrentScope # nil
    /\ symRet.err = "not found in any scope"
    /\ \E s \in RegisteredIn(symRet.variable) :
           s # CurrentScope /\ scopes[s].Parent = scopes[CurrentScope].Parent

---------------------------------------------------------------------------
(* Shadowing *)

\* the item objects whose Register under the name succeeded in scope s
DeclaredIn(s, variable) ==
    { symLog[k].item : k \in { i \in DOMAIN symLog :
                                  /\ symLog[i].op = "Register"
                                  /\ symLog[i].scope = s
                                  /\ itemHeap[symLog[i].item].Variable = variable } }

\* the scopes on the current parent chain that declare the name
DeclaringOnChain(variable) == RegisteredIn(variable) \cap ChainOf(CurrentScope)

\* the deepest of them
Innermost(variable) ==
    CHOOSE s \in DeclaringOnChain(variable) :
        \A t \in DeclaringOnChain(variable) : scopes[t].Level <= scopes[s].Level

\* C11: Register of a name is not refused because an ancestor scope declares it (a
\* Register of a positive size with a scope open fails only if the current scope
\* itself declares the name), and a Lookup of a name declared on the parent chain
\* returns the item of the innermost declaring scope, with findInCurrentScope true
\* exactly when that scope is the current one.
C11_Shadowing ==
    /\ (symRet.op = "Register" /\ symRet.err # "nil" /\ CurrentScope # nil
            /\ itemHeap[symRet.item].VariableSize > 0)
          => DeclaredIn(CurrentScope, itemHeap[symRet.item].Variable) # {}
    /\ (symRet.op = "Lookup" /\ CurrentScope # nil
            /\ DeclaringOnChain(symRet.variable) # {})
          => /\ symRet.item \in DeclaredIn(Innermost(symRet.variable), symRet.variable)
             /\ symRet.findInCurrentScope
                    <=> (Innermost(symRet.variable) = CurrentScope)

\* a Lookup has found the current scope's own declaration of a name that an ancestor
\* declares as well
C11_Witness ==
    /\ symRet.op = "Lookup" /\ CurrentScope # nil
    /\ symRet.err = "nil" /\ symRet.findInCurrentScope
    /\ symRet.item \in DeclaredIn(CurrentScope, symRet.variable)
    /\ \E s \in ChainOf(CurrentScope) \ {CurrentScope} :
          DeclaredIn(s, symRet.variable) # {}

---------------------------------------------------------------------------
(* Failing calls *)

\* C12: a Register made with no scope open, or of a name the current scope already
\* declares, or of an item whose VariableSize is not positive, returns an error and
\* changes nothing: the scopes and their declaration maps, the current scope, the
\* history and both counters are as before, the item keeps the Address it came
\* with, and no other item object is touched.
C12_FailedRegisterChangesNothing ==
    [][ symRet'.op = "Register" =>
          LET p == symRet'.item
              item == itemHeap'[p]
          IN  ( \/ CurrentScope = nil
                \/ (CurrentScope # nil
                      /\ item.Variable \in DOMAIN scopes[CurrentScope].Items)
                \/ item.VariableSize <= 0 )
              => /\ symRet'.err # "nil"
                 /\ scopes' = scopes
                 /\ CurrentScope' = CurrentScope
                 /\ LegacyScopes' = LegacyScopes
                 /\ addrCounter' = addrCounter
                 /\ constantAddr' = constantAddr
                 /\ item.Address = symRet'.addr
                 /\ \A q \in DOMAIN itemHeap : itemHeap'[q] = itemHeap[q] ]_vars

\* a Register has been refused because the current scope declares the name
C12_Witness ==
    /\ symRet.op = "Register" /\ symRet.err = "already exists in scope"
    /\ CurrentScope # nil
    /\ itemHeap[symRet.item].Variable \in DOMAIN scopes[CurrentScope].Items
    /\ scopes[CurrentScope].Items[itemHeap[symRet.item].Variable] # symRet.item

\* C13: ExitScope with no scope open, or with an exit hook that returns an error,
\* returns an error and leaves CurrentScope as it was; with a scope open and a hook
\* that is absent or returns nil it returns nil and CurrentScope becomes the Parent
\* of the scope that was current.
C13_ExitScopeErrors ==
    [][ \A hook \in HookResults :
          ExitScopeStep(hook) =>
            IF CurrentScope = nil \/ hook = "fail"
            THEN symRet'.err # "nil" /\ CurrentScope' = CurrentScope
            ELSE symRet'.err = "nil" /\ CurrentScope' = scopes[CurrentScope].Parent ]_vars

\* an ExitScope has been stopped by its hook, the scope still open
C13_Witness ==
    /\ symRet.op = "ExitScope" /\ symRet.err = "hook"
    /\ CurrentScope # nil
    /\ scopes[CurrentScope].Parent # nil

\* C14: an EnterScope whose hook returns an error returns that error, and the new
\* scope exists all the same: it is a scope that was not in the history, it is the
\* current scope and the last element of the history, which has grown by one, and
\* its Parent is the scope that was current before the call.
C14_EnterScopeHookFails ==
    [][ EnterScopeStep("fail") =>
          /\ symRet'.err = "hook"
          /\ Len(LegacyScopes') = Len(LegacyScopes) + 1
          /\ \A i \in DOMAIN LegacyScopes : LegacyScopes'[i] = LegacyScopes[i]
          /\ CurrentScope' = LegacyScopes'[Len(LegacyScopes')]
          /\ CurrentScope' # nil
          /\ \A i \in DOMAIN LegacyScopes : LegacyScopes[i] # CurrentScope'
          /\ scopes'[CurrentScope'].Parent = CurrentScope ]_vars

\* an EnterScope has returned its hook's error inside an open scope
C14_Witness ==
    /\ symRet.op = "EnterScope" /\ symRet.err = "hook"
    /\ CurrentScope # nil
    /\ CurrentScope = LegacyScopes[Len(LegacyScopes)]
    /\ scopes[CurrentScope].Parent # nil

---------------------------------------------------------------------------
(* Addresses of registered items *)

\* a Register of the item object at p has succeeded
Registered(p) ==
    \E i \in DOMAIN symLog : symLog[i].op = "Register" /\ symLog[i].item = p

\* C15: no call on the table changes the Address of an item object for which a
\* Register has succeeded, also not a further Register of the same object, and the
\* Address an item has after its first successful Register is a value of one of the
\* table's counters, not the value the caller put into the object.
C15_AddressFinal ==
    [][ /\ \A p \in DOMAIN itemHeap :
              Registered(p) => itemHeap'[p].Address = itemHeap[p].Address
        /\ (symRet'.op = "Register" /\ symRet'.err = "nil"
                /\ ~Registered(symRet'.item))
              => itemHeap'[symRet'.item].Address \in {addrCounter, constantAddr}
      ]_vars

---------------------------------------------------------------------------
(* Conflicts of ActionTable.Register *)

\* the Register call just made through the handle whose outer map was tab and is now
\* tabAfter offered a REDUCE to a slot that held a REDUCE of another production:
\* then it returned a conflict naming the state, the terminal and both productions,
\* and the slot holds what it held
ReduceOnReduce(tab, tabAfter) ==
    LET c == calls'[Len(calls')]
        st == c.stateIndex
        x == c.symbol
    IN  (/\ HasEntry(tab, actionRows, st, x)
         /\ actionRows[tab[st]][x].Type = REDUCE
         /\ c.action.Type = REDUCE
         /\ c.action.Number # actionRows[tab[st]][x].Number)
        => /\ c.err.kind = "conflict"
           /\ c.err.state = st
           /\ c.err.terminal = x
           /\ c.err.first = REDUCE /\ c.err.second = REDUCE
           /\ c.err.firstNumber = actionRows[tab[st]][x].Number
           /\ c.err.secondNumber = c.action.Number
           /\ actionRows'[tabAfter[st]][x] = actionRows[tab[st]][x]

\* C16: a Register of a REDUCE on a slot (s, t) of an ActionTable that holds a REDUCE
\* of a different production returns a conflict error that carries the state index,
\* the terminal and both production indices, and the slot keeps the REDUCE that was
\* registered first.
C16_ReduceReduceConflict ==
    [][ /\ LastCallOn("action", "t") => ReduceOnReduce(ActionTable, ActionTable')
        /\ LastCallOn("action", "c") => ReduceOnReduce(actionCopy, actionCopy') ]_vars

\* the last Register on the table was refused as a reduce/reduce conflict between
\* two productions, and the slot holds the first
C16_Witness ==
    /\ calls # <<>>
    /\ LET c == calls[Len(calls)]
       IN  /\ c.op = "Register" /\ c.table = "action" /\ c.on = "t"
           /\ c.err.kind = "conflict"
           /\ c.err.first = REDUCE /\ c.err.second = REDUCE
           /\ c.err.firstNumber # c.err.secondNumber
           /\ actionRows[ActionTable[c.stateIndex]][c.symbol]
                  = Action(REDUCE, c.err.firstNumber)

\* C20: with no copy of the table in use, a slot (s, t) on which Register was called
\* exactly twice, once with a SHIFT and once with a REDUCE, holds the SHIFT, whichever
\* of the two calls came first.
C20_ShiftWinsEitherOrder ==
    ~Copied("action") =>
    \A st \in RegStateIndices, x \in Terminals :
        LET sc == SlotCalls(st, x)
        IN  (Len(sc) = 2 /\ {sc[1].action.Type, sc[2].action.Type} = {SHIFT, REDUCE})
            => /\ actionRows[ActionTable[st]][x].Type = SHIFT
               /\ actionRows[ActionTable[st]][x] \in {sc[1].action, sc[2].action}

\* a slot got its REDUCE first and its SHIFT second, and holds the SHIFT
C20_Witness ==
    /\ ~Copied("action")
    /\ \E st \in RegStateIndices, x \in Terminals :
          LET sc == SlotCalls(st, x)
          IN  /\ Len(sc) = 2
              /\ sc[1].action.Type = REDUCE /\ sc[2].action.Type = SHIFT
              /\ actionRows[ActionTable[st]][x] = sc[2].action

---------------------------------------------------------------------------
(* Counters and the scope history *)

\* C17: the ordinary address counter, which starts at 0x10000000, never decreases:
\* after every call on the table, a TempAddr of any size included, its value is at
\* least its value before the call.
C17_CounterNeverDecreases ==
    [][ addrCounter' >= addrCounter ]_vars

\* the scope at history position i (from 0) has ID i, Level 0 without a parent and
\* the parent's Level plus one otherwise; the history holds no scope twice; the
\* current scope is nil or in the history
ScopeHistoryInv ==
    /\ \A i \in DOMAIN LegacyScopes :
          LET s == scopes[LegacyScopes[i]]
          IN  /\ s.ID = i - 1
              /\ s.Parent = nil => s.Level = 0
              /\ s.Parent # nil => s.Level = scopes[s.Parent].Level + 1
    /\ \A i, j \in DOMAIN LegacyScopes : LegacyScopes[i] = LegacyScopes[j] => i = j
    /\ CurrentScope = nil \/ \E i \in DOMAIN LegacyScopes : LegacyScopes[i] = CurrentScope

\* a call keeps the history as a prefix, an EnterScope adds exactly one entry and
\* any other call none
HistoryStep ==
    /\ \A i \in DOMAIN LegacyScopes : LegacyScopes'[i] = LegacyScopes[i]
    /\ symRet'.op = "EnterScope" => Len(LegacyScopes') = Len(LegacyScopes) + 1
    /\ symRet'.op # "EnterScope" => Len(LegacyScopes') = Len(LegacyScopes)

\* C18: the scope history is append-only (ExitScope and the other calls leave it as
\* it is, EnterScope appends exactly one scope), the scope at position i has ID i,
\* a scope without a parent has Level 0 and any other the Level of its parent plus
\* one, and CurrentScope is nil or an element of the history.
C18_ScopeHistory ==
    []ScopeHistoryInv /\ [][HistoryStep]_vars

\* three scopes in the history, two of them siblings under the first, all exited
C18_Witness ==
    /\ Len(LegacyScopes) = 3
    /\ CurrentScope = nil
    /\ symRet.op = "ExitScope" /\ symRet.err = "nil"
    /\ scopes[LegacyScopes[2]].Parent = LegacyScopes[1]
    /\ scopes[LegacyScopes[3]].Parent = LegacyScopes[1]

---------------------------------------------------------------------------
(* Nesting *)

\* what a recorded call does to the number of open scopes
DepthChange(c) ==
    IF c.op = "EnterScope" THEN 1
    ELSE IF c.op = "ExitScope" /\ c.err = "nil" THEN -1
    ELSE 0

RECURSIVE NetDepth(_, _)
\* the sum of DepthChange over the calls a..b
NetDepth(a, b) == IF b < a THEN 0 ELSE NetDepth(a, b - 1) + DepthChange(calls[b])

\* the calls a..b open and close scopes in matching pairs
Balanced(a, b) ==
    /\ NetDepth(a, b) = 0
    /\ \A k \in a..b : NetDepth(a, k) >= 0

NoHookFailure(a, b) == \A k \in a..b : calls[k].err # "hook"

\* C19: while no hook fails, the ExitScope that matches an EnterScope (everything
\* between the two is balanced) makes current the scope that was current before
\* the EnterScope; a balanced sequence on a fresh table ends with no scope current,
\* and a Register, Lookup or ExitScope called at such a point returns an error.
C19_StackDiscipline ==
    /\ \A i, j \in DOMAIN calls :
          (/\ i < j
           /\ calls[i].op = "EnterScope"
           /\ calls[j].op = "ExitScope" /\ calls[j].err = "nil"
           /\ Balanced(i + 1, j - 1)
           /\ NoHookFailure(i, j))
          => calls[j].after = calls[i].before
    /\ \A k \in 0..Len(calls) :
          (Balanced(1, k) /\ NoHookFailure(1, k))
          => /\ k = Len(calls) => CurrentScope = nil
             /\ (k < Len(calls)
                   /\ calls[k + 1].op \in {"Register", "Lookup", "ExitScope"})
                  => calls[k + 1].err # "nil"

\* EnterScope, a nested EnterScope / ExitScope pair, a Register, and the matching
\* ExitScope, which ends with no scope current
C19_Witness ==
    /\ Len(calls) = 5
    /\ [k \in 1..5 |-> calls[k].op]
          = <<"EnterScope", "EnterScope", "ExitScope", "Register", "ExitScope">>
    /\ \A k \in 1..5 : calls[k].err = "nil"
    /\ calls[3].after = calls[2].before
    /\ calls[5].after = nil
    /\ CurrentScope = nil

=============================================================================
